---------------------------- MODULE Spec2Model ----------------------------
(***************************************************************************)
(* A model of LOGGING.ino: an NMEA sentence assembler (the byte loop of    *)
(* loop()), the RMC decoder parseRMC with its UTC-to-local conversion      *)
(* adjustTimeZone, and the 5-second SD logging scheduler of loop().        *)
(*                                                                         *)
(* Characters are their ASCII codes, C strings are sequences of codes      *)
(* (without the terminating NUL).  gpsData.speed is kept in units of       *)
(* 10^-6 km/h: knots are read to three decimals and multiplied by 1852.    *)
(***************************************************************************)
EXTENDS Integers, Sequences, FiniteSets, TLC

VARIABLES
    pc,           \* "setup" | "halted" | "loop" | "tz" | "tzdone"
    rx,           \* bytes waiting in Serial1's receive buffer
    arrivals,     \* number of bursts the UART has delivered so far
    buffer,       \* buffer[0 .. bufferIndex-1]
    bufferIndex,
    gpsData,
    tempTime,     \* the six bytes of parseRMC's stack slot tempTime[0..5]
    lastLogTime,  \* an unsigned long, as <<high 16 bits, low 16 bits>>
    now,          \* milliseconds since boot, unwrapped: <<number of
                  \*   wraps of millis(), high 16 bits, low 16 bits>>
    ticks,        \* number of scheduler checks made so far
    logFile,      \* the lines appended to gps_log.txt
    diag,         \* class of the message the latest step printed on Serial1
    lastByte,     \* the byte read by the latest pass of the byte loop
    emitted,      \* the sentence that pass found complete (<<>>: none)
    line,         \* the bytes read since the terminator before the latest
                  \*   byte, that byte included
    lastSentence, \* argument of the latest call of parseRMC
    outcome,      \* branch the latest call of parseRMC ended in
    fired,        \* the latest step was a scheduler check that fired
    fireNow,      \* unwrapped time of the latest fire (0 before the first)
    prevFireNow,  \* unwrapped time of the fire before it
    logAction     \* what the latest step, a scheduler check, did

vars == <<pc, rx, arrivals, buffer, bufferIndex, gpsData, tempTime,
          lastLogTime, now, ticks, logFile, diag, lastByte, emitted, line,
          lastSentence, outcome, fired, fireNow, prevFireNow, logAction>>

----------------------------------------------------------------------------
(* Characters *)

Ascii32 == <<" ","!">>

Ascii35 ==
    <<"#","$","%","&","'","(",")","*","+",",","-",".","/","0","1","2","3",
      "4","5","6","7","8","9",":",";","<","=",">","?","@","A","B","C","D",
      "E","F","G","H","I","J","K","L","M","N","O","P","Q","R","S","T","U",
      "V","W","X","Y","Z","[">>

Ascii93 == <<"]","^","_">>

Ascii97 ==
    <<"a","b","c","d","e","f","g","h","i","j","k","l","m","n","o","p","q",
      "r","s","t","u","v","w","x","y","z","{","|","}","~">>

\* The ASCII code of a one-character string.
Ord(c) ==
    CASE c = "\n" -> 10
      [] c = "\r" -> 13
      [] \E i \in 1..Len(Ascii32) : Ascii32[i] = c ->
            31 + (CHOOSE i \in 1..Len(Ascii32) : Ascii32[i] = c)
      [] \E i \in 1..Len(Ascii35) : Ascii35[i] = c ->
            34 + (CHOOSE i \in 1..Len(Ascii35) : Ascii35[i] = c)
      [] \E i \in 1..Len(Ascii93) : Ascii93[i] = c ->
            92 + (CHOOSE i \in 1..Len(Ascii93) : Ascii93[i] = c)
      [] \E i \in 1..Len(Ascii97) : Ascii97[i] = c ->
            96 + (CHOOSE i \in 1..Len(Ascii97) : Ascii97[i] = c)

\* The characters of a string literal.
Str(s) == [i \in 1..Len(s) |-> Ord(SubSeq(s, i, i))]

NUL == 0
LF == 10
CR == 13
Zero == Ord("0")
Minus == Ord("-")
Dot == Ord(".")
Comma == Ord(",")
Dollar == Ord("$")

----------------------------------------------------------------------------
(* C integer arithmetic and printf("%02d") *)

\* C's / and % truncate toward zero.
CDiv(a, b) == IF a >= 0 THEN a \div b ELSE -((-a) \div b)

CMod(a, b) == a - b * CDiv(a, b)

RECURSIVE Dec(_)
\* The decimal digits of a natural number.
Dec(n) == IF n < 10 THEN <<Zero + n>> ELSE Dec(n \div 10) \o <<Zero + (n % 10)>>

\* sprintf's %02d: at least two characters, zero padded, sign first.
Fmt02(n) ==
    IF n < 0 THEN <<Minus>> \o Dec(-n)
    ELSE IF n < 10 THEN <<Zero, Zero + n>>
    ELSE Dec(n)

----------------------------------------------------------------------------
(* adjustTimeZone *)

TZ_HOURS == 5
TZ_MINUTES == 30

\* The carry of the minutes into the hours is dropped.
adjustTimeZoneNoCarry(utcTime) ==
    LET hours0   == (utcTime[1] - Zero) * 10 + (utcTime[2] - Zero)
        minutes0 == (utcTime[3] - Zero) * 10 + (utcTime[4] - Zero)
        seconds  == (utcTime[5] - Zero) * 10 + (utcTime[6] - Zero)
        minutes1 == minutes0 + TZ_MINUTES
        hours1   == hours0 + TZ_HOURS
    IN  Fmt02(CMod(hours1, 24)) \o Fmt02(CMod(minutes1, 60)) \o Fmt02(seconds)

\* The minutes are not reduced modulo 60.
adjustTimeZoneNoMod(utcTime) ==
    LET hours0   == (utcTime[1] - Zero) * 10 + (utcTime[2] - Zero)
        minutes0 == (utcTime[3] - Zero) * 10 + (utcTime[4] - Zero)
        seconds  == (utcTime[5] - Zero) * 10 + (utcTime[6] - Zero)
        minutes1 == minutes0 + TZ_MINUTES
        hours1   == hours0 + TZ_HOURS + CDiv(minutes1, 60)
    IN  Fmt02(CMod(hours1, 24)) \o Fmt02(minutes1) \o Fmt02(seconds)

\* The string sprintf writes to localTime, from the six bytes utcTime[0..5].
adjustTimeZone(utcTime) ==
    LET hours0   == (utcTime[1] - Zero) * 10 + (utcTime[2] - Zero)
        minutes0 == (utcTime[3] - Zero) * 10 + (utcTime[4] - Zero)
        seconds  == (utcTime[5] - Zero) * 10 + (utcTime[6] - Zero)
        minutes1 == minutes0 + TZ_MINUTES
        hours1   == hours0 + TZ_HOURS + CDiv(minutes1, 60)
        minutes  == CMod(minutes1, 60)
        hours    == CMod(hours1, 24)
    IN  Fmt02(hours) \o Fmt02(minutes) \o Fmt02(seconds)

----------------------------------------------------------------------------
(* C strings *)

\* The number of elements of s before the first one equal to c (all of them
\* when there is none).
Before(s, c) ==
    IF \E i \in 1..Len(s) : s[i] = c
    THEN (CHOOSE i \in 1..Len(s) :
              s[i] = c /\ \A j \in 1..(i - 1) : s[j] # c) - 1
    ELSE Len(s)

\* strlen of the bytes mem: the number of bytes before the first NUL.
CStrLen(mem) == Before(mem, NUL)

\* The C string stored at the start of the bytes mem.
CStr(mem) == SubSeq(mem, 1, CStrLen(mem))

\* n NUL bytes.
Zeros(n) == [i \in 1..n |-> NUL]

\* The first n characters of s (strncpy(dst, s, n); dst[n] = '\0').
Prefix(s, n) == SubSeq(s, 1, IF Len(s) < n THEN Len(s) ELSE n)

\* strstr(s, needle) != NULL
strstr(s, needle) ==
    \E i \in 0..(Len(s) - Len(needle)) :
        SubSeq(s, i + 1, i + Len(needle)) = needle

GNRMC == Str("GNRMC")
GPRMC == Str("GPRMC")

\* strtok's first step: skip the leading delimiters.
SkipDelims(s) ==
    IF \E i \in 1..Len(s) : s[i] # Comma
    THEN SubSeq(s, CHOOSE i \in 1..Len(s) :
                       s[i] # Comma /\ \A j \in 1..(i - 1) : s[j] = Comma,
                Len(s))
    ELSE <<>>

\* strtok's second step: the length of the token, up to the next delimiter.
TokenLen(s) == Before(s, Comma)

RECURSIVE SplitAll(_)
\* A split on every ',' that keeps the empty fields.
SplitAll(s) ==
    LET n == TokenLen(s)
    IN  IF n = Len(s) THEN <<s>>
        ELSE <<SubSeq(s, 1, n)>> \o SplitAll(SubSeq(s, n + 2, Len(s)))

RECURSIVE strtokAll(_)
\* The tokens that strtok(sentence, ",") and then strtok(NULL, ",") return,
\* in order: the non-empty runs of characters between commas.
strtokAll(s) ==
    LET t == SkipDelims(s)
        n == TokenLen(t)
    IN  IF t = <<>> THEN <<>>
        ELSE <<SubSeq(t, 1, n)>> \o strtokAll(SubSeq(t, n + 2, Len(t)))

IsDigit(c) == c >= Zero /\ c <= Zero + 9

RECURSIVE DigitsLen(_)
DigitsLen(s) ==
    IF s = <<>> \/ ~IsDigit(Head(s)) THEN 0 ELSE 1 + DigitsLen(Tail(s))

RECURSIVE DigitsVal(_)
DigitsVal(s) ==
    IF s = <<>> THEN 0
    ELSE DigitsVal(SubSeq(s, 1, Len(s) - 1)) * 10 + (s[Len(s)] - Zero)

\* atol in the place of atof: the decimals are dropped.
atolMilli(token) ==
    LET neg  == token # <<>> /\ token[1] = Minus
        body == IF neg THEN Tail(token) ELSE token
        abs  == DigitsVal(SubSeq(body, 1, DigitsLen(body))) * 1000
    IN  IF neg THEN -abs ELSE abs

\* atof(token), in thousandths: an optional sign, digits, and after a '.'
\* the first three decimals (0 when the token starts with no number).
atofMilli(token) ==
    LET neg   == token # <<>> /\ token[1] = Minus
        body  == IF neg THEN Tail(token) ELSE token
        n     == DigitsLen(body)
        int   == DigitsVal(SubSeq(body, 1, n))
        rest  == SubSeq(body, n + 1, Len(body))
        fracs == IF rest # <<>> /\ rest[1] = Dot THEN Tail(rest) ELSE <<>>
        k     == IF DigitsLen(fracs) < 3 THEN DigitsLen(fracs) ELSE 3
        frac  == DigitsVal(SubSeq(fracs, 1, k))
                    * (IF k = 0 THEN 1000 ELSE IF k = 1 THEN 100
                       ELSE IF k = 2 THEN 10 ELSE 1)
        abs   == int * 1000 + frac
    IN  IF neg THEN -abs ELSE abs

\* Print::print(float, 1) of a speed in 10^-6 km/h: 0.05 is added and the
\* digits after the first decimal are cut.
printFloat1(speed) ==
    LET abs    == IF speed < 0 THEN -speed ELSE speed
        tenths == (abs + 50000) \div 100000
    IN  (IF speed < 0 THEN <<Minus>> ELSE <<>>)
            \o Dec(tenths \div 10) \o <<Dot>> \o Dec(tenths % 10)

----------------------------------------------------------------------------
(* The fix record gpsData and parseRMC *)

\* memset(&gpsData, 0, sizeof(gpsData)).  time and lat are kept as their
\* bytes, char time[7] followed by char lat[11]; the other strings as the
\* C strings they hold.
ZeroGps ==
    [date |-> <<>>, time |-> Zeros(7), lat |-> Zeros(11), ns |-> NUL,
     lon |-> <<>>, ew |-> NUL, speed |-> 0, mode |-> NUL,
     dataReady |-> FALSE]

\* What print(gpsData.time) prints: the string starting at time[0]; it runs
\* on into lat when sprintf wrote more than six characters.
TimeStr(g) == CStr(g.time \o g.lat)

\* What print(gpsData.lat) prints.
LatStr(g) == CStr(g.lat)

\* strncpy(gpsData.lat, token, 10); gpsData.lat[10] = '\0'
StoreLat(token) == Prefix(token, 10) \o Zeros(11 - Len(Prefix(token, 10)))

\* sprintf(gpsData.time, ...) of the string out: out and its NUL are written
\* from time[0] on, past time[6] into lat when out is longer than six.
StoreTime(g, out) ==
    LET mem == g.time \o g.lat
        src == out \o <<NUL>>
        new == [i \in 1..18 |-> IF i <= Len(src) THEN src[i] ELSE mem[i]]
    IN  [g EXCEPT !.time = SubSeq(new, 1, 7), !.lat = SubSeq(new, 8, 18)]

ModeA == Ord("A")
ModeV == Ord("V")

\* The loggable test of parseRMC and of loop().
Loggable(g) == g.dataReady /\ g.mode = ModeA

\* The token strtok returns when fieldCount = i; <<>> when the sentence has
\* no such token.
Token(tok, i) == IF Len(tok) > i THEN tok[i + 1] ELSE <<>>

\* The record after the while loop of parseRMC, for the tokens tok.
FieldsOf(tok, g) ==
    [date      |-> IF Len(Token(tok, 9)) >= 6
                   THEN Prefix(Token(tok, 9), 6) ELSE g.date,
     time      |-> g.time,
     lat       |-> IF Len(Token(tok, 3)) > 0
                   THEN StoreLat(Token(tok, 3)) ELSE g.lat,
     ns        |-> IF Len(Token(tok, 4)) > 0
                   THEN Token(tok, 4)[1] ELSE g.ns,
     lon       |-> IF Len(Token(tok, 5)) > 0
                   THEN Prefix(Token(tok, 5), 10) ELSE g.lon,
     ew        |-> IF Len(Token(tok, 6)) > 0
                   THEN Token(tok, 6)[1] ELSE g.ew,
     speed     |-> IF Len(tok) > 7
                   THEN (IF Len(Token(tok, 7)) > 0
                         THEN atofMilli(Token(tok, 7)) * 1852 ELSE 0)
                   ELSE g.speed,
     mode      |-> IF Len(Token(tok, 2)) > 0
                   THEN Token(tok, 2)[1] ELSE g.mode,
     dataReady |-> Len(Token(tok, 9)) >= 6]

\* tempTime after the while loop: written from a token of six characters
\* or more, and otherwise still the bytes stack it started with.
TempTimeOf(tok, stack) ==
    IF Len(Token(tok, 1)) >= 6 THEN Prefix(Token(tok, 1), 6) ELSE stack

\* The end of parseRMC with the day of the date advanced by one when the
\* local time has passed midnight.
FinishNextDay(g, tmp) ==
    IF Loggable(g)
    THEN [gps |-> StoreTime(
                     IF adjustTimeZone(tmp)[1] < tmp[1]
                     THEN [g EXCEPT !.date[2] = @ + 1] ELSE g,
                     adjustTimeZone(tmp)),
          tempTime |-> tmp, outcome |-> "fix"]
    ELSE [gps |-> g, tempTime |-> tmp,
          outcome |-> IF g.mode = ModeV THEN "lost" ELSE "silent"]

\* The end of parseRMC, after the while loop.
Finish(g, tmp) ==
    IF Loggable(g)
    THEN [gps |-> StoreTime(g, adjustTimeZone(tmp)), tempTime |-> tmp,
          outcome |-> "fix"]
    ELSE [gps |-> g, tempTime |-> tmp,
          outcome |-> IF g.mode = ModeV THEN "lost" ELSE "silent"]

\* parseRMC(sentence) on the record g, with stack the bytes that tempTime
\* holds before it is written.  The result is the new record, the bytes of
\* tempTime at the end, and the branch taken: the fix is printed, "gps
\* signal lost" is printed, or nothing is.
parseRMC(sentence, g, stack) ==
    Finish(FieldsOf(strtokAll(sentence), g),
           TempTimeOf(strtokAll(sentence), stack))

\* The outcomes of reading tempTime when parseRMC has not written it: the
\* bytes its stack slot was left with, or bytes some other call put there.
StackGarbage == {Zeros(6), Str("999999")}

Uninit(stale) == {stale} \cup StackGarbage

----------------------------------------------------------------------------
(* Bounds and inputs *)

\* Bursts of bytes the UART delivers in one behaviour.
MaxChunks == 2

\* Scheduler checks (passes through part B of loop()) in one behaviour.
MaxTicks == 2

\* The reference sentence of the NMEA documentation.
RefSentence ==
    Str("$GPRMC,123519,A,4807.038,N,01131.000,E,022.4,084.4,230394,003.1,W*6A\r\n")

\* What a receiver without a fix sends: status V, the other fields empty.
NoFixSentence == Str("$GPRMC,,V,,,,,,,,,,N*53\r\n")

\* A complete sentence with status V.
VoidSentence == Str("$GNRMC,123520,V,1.5,S,2.5,W,0.0,0.0,240394\r\n")

\* A time field of four characters.
ShortTimeSentence == Str("$GPRMC,1235,A,3.5,N,4.5,E,1.0,9.9,250394\r\n")

\* A leap second, 23:59:60.
LeapSentence == Str("$GPRMC,235960,A,5.5,S,6.5,W,2.0,9.9,311216\r\n")

\* An empty speed field and a date field of four characters.
ShortDateSentence == Str("$GPRMC,123521,A,7.5,N,8.5,E,,9.9,2603,003.123\r\n")

\* A time field with a '.' among its first six characters.
DotTimeSentence == Str("$GPRMC,1235.5,A,9.5,N,1.5,E,3.0,9.9,270394\r\n")

\* A sentence that is not RMC.
GgaSentence == Str("$GPGGA,123519,4807.038,N\r\n")

\* Bytes before any '$', a '$' directly followed by a terminator, and a
\* sentence restarted by a second '$'.
Junk == Str("xy\n$\r$ab$cd\n")

Chunks ==
    {RefSentence, NoFixSentence, VoidSentence, ShortTimeSentence,
     LeapSentence, ShortDateSentence, DotTimeSentence, GgaSentence, Junk}

----------------------------------------------------------------------------
(* unsigned long: 32 bits, kept as <<high 16 bits, low 16 bits>> *)

Half == 65536

\* The unsigned long of a number below 2^31.
U32(n) == <<n \div Half, n % Half>>

\* a + b in unsigned long.
Add32(a, b) ==
    LET lo == a[2] + b[2]
        hi == a[1] + b[1] + (lo \div Half)
    IN  <<hi % Half, lo % Half>>

\* a - b in unsigned long.
Sub32(a, b) ==
    LET lo == a[2] - b[2]
        hi == a[1] - b[1] - (IF lo < 0 THEN 1 ELSE 0)
    IN  <<hi % Half, lo % Half>>

\* a >= b in unsigned long.
Geq32(a, b) == a[1] > b[1] \/ (a[1] = b[1] /\ a[2] >= b[2])

\* millis() at the unwrapped time t.
Millis(t) == <<t[2], t[3]>>

\* The unwrapped time d milliseconds (an unsigned long) after t.
Later(t, d) ==
    LET lo == t[3] + d[2]
        hi == t[2] + d[1] + (lo \div Half)
    IN  <<t[1] + (hi \div Half), hi % Half, lo % Half>>

\* At least n milliseconds (n below 2^16) lie between the unwrapped times
\* t0 and t1, t0 the earlier.
AtLeast(t0, t1, n) ==
    LET lo == t1[3] - t0[3]
        hi == t1[2] - t0[2] - (IF lo < 0 THEN 1 ELSE 0)
        ep == t1[1] - t0[1] - (IF hi < 0 THEN 1 ELSE 0)
    IN  ep > 0 \/ hi % Half > 0 \/ lo % Half >= n

\* Milliseconds between one scheduler check and the next.
Steps == {U32(2500), U32(5000)}

----------------------------------------------------------------------------
(* setup() and loop() *)

BUFFER_SIZE == 128
LOG_INTERVAL_MS == 5000
SETUP_DELAY_MS == 1200

\* The test for RMC looking only at the sentence id.
IsRMCById(s) == Prefix(s, 5) = GNRMC \/ Prefix(s, 5) = GPRMC

\* A sentence of loop()'s buffer is handed to parseRMC.
IsRMC(s) == strstr(s, GNRMC) \/ strstr(s, GPRMC)

\* The line with the "," between longitude and latitude forgotten.
LogLineNoComma(g) ==
    g.date \o <<Comma>> \o TimeStr(g) \o <<Comma>> \o g.lon \o <<g.ew>>
        \o LatStr(g) \o <<g.ns>> \o <<Comma>> \o printFloat1(g.speed)

\* The line loop() prints to gps_log.txt.
LogLine(g) ==
    g.date \o <<Comma>> \o TimeStr(g) \o <<Comma>> \o g.lon \o <<g.ew>>
        \o <<Comma>> \o LatStr(g) \o <<g.ns>> \o <<Comma>>
        \o printFloat1(g.speed)

Init ==
    /\ pc = "setup"
    /\ rx = <<>>
    /\ arrivals = 0
    /\ buffer = <<>>
    /\ bufferIndex = 0
    /\ gpsData = ZeroGps
    /\ tempTime = Zeros(6)
    /\ lastLogTime = U32(0)
    /\ now = <<0, 0, 0>>
    /\ ticks = 0
    /\ logFile = <<>>
    /\ diag = "none"
    /\ lastByte = NUL
    /\ emitted = <<>>
    /\ line = <<>>
    /\ lastSentence = <<>>
    /\ outcome = "none"
    /\ fired = FALSE
    /\ fireNow = <<0, 0, 0>>
    /\ prevFireNow = <<0, 0, 0>>
    /\ logAction = "none"

\* setup() with the while(1) after the failure messages missing: setup()
\* goes on to the test file and returns.
SetupNoHalt ==
    /\ pc = "setup"
    /\ \E sdOk \in BOOLEAN, testOk \in BOOLEAN :
          diag' = IF ~sdOk THEN "sdfail"
                  ELSE IF testOk THEN "testok" ELSE "testerr"
    /\ pc' = "loop"
    /\ gpsData' = ZeroGps
    /\ now' = Later(now, U32(SETUP_DELAY_MS))
    /\ UNCHANGED <<rx, arrivals, buffer, bufferIndex, tempTime, lastLogTime,
                   ticks, logFile, lastByte, emitted, line, lastSentence,
                   outcome, fired, fireNow, prevFireNow, logAction>>

\* setup(): SD.begin fails and setup() spins in while(1), or it succeeds,
\* the test file is tried and gpsData is cleared.
Setup ==
    /\ pc = "setup"
    /\ \E sdOk \in BOOLEAN, testOk \in BOOLEAN :
          IF ~sdOk
          THEN /\ pc' = "halted"
               /\ diag' = "sdfail"
               /\ UNCHANGED gpsData
          ELSE /\ pc' = "loop"
               /\ diag' = IF testOk THEN "testok" ELSE "testerr"
               /\ gpsData' = ZeroGps
    /\ now' = Later(now, U32(SETUP_DELAY_MS))
    /\ UNCHANGED <<rx, arrivals, buffer, bufferIndex, tempTime, lastLogTime,
                   ticks, logFile, lastByte, emitted, line, lastSentence,
                   outcome, fired, fireNow, prevFireNow, logAction>>

\* The UART receives a burst of bytes into Serial1's empty receive buffer.
SerialArrive(chunks, max) ==
    /\ pc = "loop"
    /\ rx = <<>>
    /\ arrivals < max
    /\ \E c \in chunks : rx' = c
    /\ arrivals' = arrivals + 1
    /\ UNCHANGED <<pc, buffer, bufferIndex, gpsData, tempTime, lastLogTime,
                   now, ticks, logFile, diag, lastByte, emitted, line,
                   lastSentence, outcome, fired, fireNow, prevFireNow,
                   logAction>>

\* The call of parseRMC(buffer) at a terminator; buffer is a C string, which
\* ends at its first NUL.
CallParseRMC ==
    \E stack \in Uninit(tempTime) :
        LET r == parseRMC(CStr(buffer), gpsData, stack)
        IN  /\ gpsData' = r.gps
            /\ tempTime' = r.tempTime
            /\ outcome' = r.outcome
            /\ diag' = r.outcome
            /\ lastSentence' = CStr(buffer)

\* c == '\n' || c == '\r', with the '\r' forgotten.
IsTerminatorLF(c) == c = LF

\* c == '\n' || c == '\r', with the '\n' forgotten.
IsTerminatorCR(c) == c = CR

\* c == '\n' || c == '\r'
IsTerminator(c) == c = LF \/ c = CR

\* bufferIndex < sizeof(buffer), with no byte kept for the '\0'.
HasRoomFull(index) == index < BUFFER_SIZE

\* bufferIndex < sizeof(buffer) - 1
HasRoom(index) == index < BUFFER_SIZE - 1

\* One pass of the while loop of loop(): a byte is available and is read.
ReadByte ==
    /\ pc = "loop"
    /\ rx # <<>>
    /\ rx' = Tail(rx)
    /\ lastByte' = Head(rx)
    /\ line' = IF line # <<>> /\ line[Len(line)] \in {LF, CR}
               THEN <<Head(rx)>> ELSE Append(line, Head(rx))
    /\ LET c == Head(rx)
       IN  IF c = Dollar
           THEN /\ bufferIndex' = 0
                /\ buffer' = <<>>
                /\ emitted' = <<>>
                /\ diag' = "none"
                /\ UNCHANGED <<gpsData, tempTime, lastSentence, outcome>>
           ELSE IF IsTerminator(c)
           THEN /\ IF bufferIndex > 0
                   THEN /\ emitted' = buffer
                        /\ IF IsRMC(CStr(buffer))
                           THEN CallParseRMC
                           ELSE /\ diag' = "none"
                                /\ UNCHANGED <<gpsData, tempTime,
                                               lastSentence, outcome>>
                   ELSE /\ emitted' = <<>>
                        /\ diag' = "none"
                        /\ UNCHANGED <<gpsData, tempTime, lastSentence,
                                       outcome>>
                /\ bufferIndex' = 0
                /\ buffer' = <<>>
           ELSE /\ IF HasRoom(bufferIndex)
                   THEN /\ buffer' = Append(buffer, c)
                        /\ bufferIndex' = bufferIndex + 1
                   ELSE UNCHANGED <<buffer, bufferIndex>>
                /\ emitted' = <<>>
                /\ diag' = "none"
                /\ UNCHANGED <<gpsData, tempTime, lastSentence, outcome>>
    /\ fired' = FALSE
    /\ logAction' = "none"
    /\ UNCHANGED <<pc, arrivals, lastLogTime, now, ticks, logFile, fireNow,
                   prevFireNow>>

\* currentMillis - lastLogTime >= LOG_INTERVAL_MS, with a comparison that
\* adds the interval to lastLogTime instead.
DueByAddition(currentMillis, last) ==
    Geq32(currentMillis, Add32(last, U32(LOG_INTERVAL_MS)))

\* currentMillis - lastLogTime >= LOG_INTERVAL_MS, in unsigned long.
Due(currentMillis, last) ==
    Geq32(Sub32(currentMillis, last), U32(LOG_INTERVAL_MS))

\* The branch of part B with the mode forgotten in the test.
LogBranchNoMode(g, openOk) ==
    IF g.dataReady THEN (IF openOk THEN "write" ELSE "openerr")
    ELSE IF g.mode = ModeV THEN "lost"
    ELSE "notready"

\* The branch of part B with the else of "if (dataFile)" missing: a failed
\* open falls through to the not-ready message.
LogBranchSilentFail(g, openOk) ==
    IF Loggable(g) /\ openOk THEN "write"
    ELSE IF g.mode = ModeV THEN "lost"
    ELSE "notready"

\* The branch of part B that a fire takes when gps_log.txt opens (openOk)
\* or does not.
LogBranch(g, openOk) ==
    IF Loggable(g) THEN (IF openOk THEN "write" ELSE "openerr")
    ELSE IF g.mode = ModeV THEN "lost"
    ELSE "notready"

\* Part B of loop() with dataReady cleared once the record is written.
LogTickClearing(steps, max) ==
    /\ pc = "loop"
    /\ rx = <<>>
    /\ ticks < max
    /\ ticks' = ticks + 1
    /\ \E dt \in steps, openOk \in BOOLEAN :
          LET currentMillis == Millis(Later(now, dt))
              branch == IF Due(currentMillis, lastLogTime)
                        THEN LogBranch(gpsData, openOk) ELSE "none"
          IN  /\ now' = Later(now, dt)
              /\ fired' = (branch # "none")
              /\ logAction' = branch
              /\ diag' = branch
              /\ lastLogTime' = IF branch # "none" THEN currentMillis
                                ELSE lastLogTime
              /\ prevFireNow' = IF branch # "none" THEN fireNow
                                ELSE prevFireNow
              /\ fireNow' = IF branch # "none" THEN Later(now, dt)
                            ELSE fireNow
              /\ logFile' = IF branch = "write"
                            THEN Append(logFile, LogLine(gpsData))
                            ELSE logFile
              /\ gpsData' = IF branch = "write"
                            THEN [gpsData EXCEPT !.dataReady = FALSE]
                            ELSE gpsData
    /\ UNCHANGED <<pc, rx, arrivals, buffer, bufferIndex, tempTime,
                   lastByte, emitted, line, lastSentence, outcome>>

\* Part B of loop(), reached when no byte is available: millis() is read,
\* dt milliseconds after the check before.
LogTick(steps, max) ==
    /\ pc = "loop"
    /\ rx = <<>>
    /\ ticks < max
    /\ ticks' = ticks + 1
    /\ \E dt \in steps, openOk \in BOOLEAN :
          LET currentMillis == Millis(Later(now, dt))
          IN  /\ now' = Later(now, dt)
              /\ IF Due(currentMillis, lastLogTime)
                 THEN /\ lastLogTime' = currentMillis
                      /\ fired' = TRUE
                      /\ prevFireNow' = fireNow
                      /\ fireNow' = Later(now, dt)
                      /\ logAction' = LogBranch(gpsData, openOk)
                      /\ diag' = LogBranch(gpsData, openOk)
                      /\ logFile' = IF LogBranch(gpsData, openOk) = "write"
                                    THEN Append(logFile, LogLine(gpsData))
                                    ELSE logFile
                 ELSE /\ fired' = FALSE
                      /\ logAction' = "none"
                      /\ diag' = "none"
                      /\ UNCHANGED <<lastLogTime, prevFireNow, fireNow,
                                     logFile>>
    /\ UNCHANGED <<pc, rx, arrivals, buffer, bufferIndex, gpsData, tempTime,
                   lastByte, emitted, line, lastSentence, outcome>>

Next ==
    \/ Setup
    \/ SerialArrive(Chunks, MaxChunks)
    \/ ReadByte
    \/ LogTick(Steps, MaxTicks)

Spec == Init /\ [][Next]_vars

----------------------------------------------------------------------------
(* Properties of the decoder and of the scheduler, in Spec *)

\* The field at comma position i of the sentence s, empty fields counted
\* (<<>> when s has fewer fields).
FieldAt(s, i) == IF Len(SplitAll(s)) > i THEN SplitAll(s)[i + 1] ELSE <<>>

\* The first character of a field (NUL when it is empty).
First(f) == IF f = <<>> THEN NUL ELSE f[1]

AllDigits(f) == \A i \in 1..Len(f) : IsDigit(f[i])

C5_SignalLost ==
    First(FieldAt(lastSentence, 2)) = ModeV
        => gpsData.mode = ModeV /\ outcome = "lost"

\* C6: after decoding a sentence whose date field, at comma position 9, has
\* fewer than 6 characters, dataReady is false.
C6_ShortDate ==
    (lastSentence # <<>> /\ Len(FieldAt(lastSentence, 9)) < 6)
        => ~gpsData.dataReady

\* C8: a scheduler check (a step that advances ticks) that fires tries to write if and only if mode is
\* 'A' and dataReady is true, reports signal-lost if not and mode is 'V',
\* and reports not-ready otherwise; gps_log.txt grows only by the record of
\* a fire that finds mode 'A' and dataReady true.
C8_OneAction ==
    [][ /\ (ticks' # ticks /\ fired') =>
            /\ logAction' \in {"write", "openerr"} <=>
                  (gpsData.mode = ModeA /\ gpsData.dataReady)
            /\ logAction' = "lost" <=>
                  (~(gpsData.mode = ModeA /\ gpsData.dataReady)
                   /\ gpsData.mode = ModeV)
            /\ logAction' = "notready" <=>
                  (~(gpsData.mode = ModeA /\ gpsData.dataReady)
                   /\ gpsData.mode # ModeV)
            /\ gpsData' = gpsData
        /\ logFile' # logFile =>
            /\ fired' /\ logAction' = "write"
            /\ gpsData.mode = ModeA /\ gpsData.dataReady
            /\ logFile' = Append(logFile, LogLine(gpsData))
        /\ (ticks' # ticks /\ logAction' = "write") => logFile' # logFile
        /\ (ticks' # ticks /\ ~fired') => logAction' = "none" ]_vars

\* A fire found a record with dataReady true and mode 'V' and reported
\* signal-lost, after an earlier fire had written a record.
C8_Witness ==
    /\ fired
    /\ logAction = "lost"
    /\ gpsData.dataReady
    /\ Len(logFile) = 1

\* The line C9 expects for the sentence s: every part from the field of s at
\* its comma position, the time converted from the time field of s.
LineOf(s) ==
    Prefix(FieldAt(s, 9), 6) \o <<Comma>>
        \o adjustTimeZone(Prefix(FieldAt(s, 1), 6)) \o <<Comma>>
        \o Prefix(FieldAt(s, 5), 10) \o <<First(FieldAt(s, 6))>> \o <<Comma>>
        \o Prefix(FieldAt(s, 3), 10) \o <<First(FieldAt(s, 4))>> \o <<Comma>>
        \o printFloat1(atofMilli(FieldAt(s, 7)) * 1852)

\* C9: the line a fire writes holds the date, the converted time, the
\* longitude, latitude, hemispheres and speed of the sentence decoded last,
\* and nothing else.
C9_LatestSentence ==
    logAction = "write" =>
        /\ Len(FieldAt(lastSentence, 1)) >= 6
        /\ logFile[Len(logFile)] = LineOf(lastSentence)

\* C10: when the sentence decoded last made the record loggable and its
\* time field starts with six decimal digits, localTime is six digits with
\* hours in 0..23, minutes in 0..59 and seconds in 0..59.
C10_Normalized ==
    ( /\ Loggable(gpsData)
      /\ Len(FieldAt(lastSentence, 1)) >= 6
      /\ AllDigits(Prefix(FieldAt(lastSentence, 1), 6)) )
    => LET t == TimeStr(gpsData)
       IN  /\ Len(t) = 6
           /\ AllDigits(t)
           /\ (t[1] - Zero) * 10 + (t[2] - Zero) \in 0..23
           /\ (t[3] - Zero) * 10 + (t[4] - Zero) \in 0..59
           /\ (t[5] - Zero) * 10 + (t[6] - Zero) \in 0..59

\* The speed g.speed rounded to one decimal, in thousandths.
Rounded1(speed) ==
    LET abs == IF speed < 0 THEN -speed ELSE speed
        r   == ((abs + 50000) \div 100000) * 100
    IN  IF speed < 0 THEN -r ELSE r

\* C11: the line a fire has just written, split again on ',', has exactly
\* five fields: the record's date, its localTime, its longitude followed by
\* the E/W character, its latitude followed by the N/S character, and a
\* number that reads back as the record's speed rounded to one decimal.
C11_RoundTrip ==
    logAction = "write" =>
        LET f == SplitAll(logFile[Len(logFile)])
        IN  /\ Len(f) = 5
            /\ f[1] = gpsData.date
            /\ f[2] = TimeStr(gpsData)
            /\ f[3] = gpsData.lon \o <<gpsData.ew>>
            /\ f[4] = LatStr(gpsData) \o <<gpsData.ns>>
            /\ atofMilli(f[5]) = Rounded1(gpsData.speed)

\* The record of the reference sentence has been written and reads back.
C11_Witness ==
    /\ logAction = "write"
    /\ logFile[Len(logFile)]
          = Str("230394,180519,01131.000E,4807.038N,41.5")
    /\ gpsData.speed = 41484800

\* C13: a '\n' or '\r' read while the buffer is empty emits nothing, does
\* not call parseRMC (record, tempTime and diagnostics are untouched) and
\* leaves the cursor at zero; and whenever parseRMC is called, the buffer
\* held at least one byte and the sentence handed over is not empty.
C13_NoEmptySentence ==
    [][ /\ (rx # <<>> /\ Head(rx) \in {LF, CR} /\ bufferIndex = 0) =>
            /\ emitted' = <<>>
            /\ bufferIndex' = 0
            /\ buffer' = <<>>
            /\ gpsData' = gpsData
            /\ tempTime' = tempTime
            /\ lastSentence' = lastSentence
            /\ outcome' = outcome
            /\ diag' = "none"
        /\ (rx # <<>> /\ diag' \in {"fix", "lost", "silent"}) =>
            /\ bufferIndex > 0
            /\ emitted' # <<>>
            /\ lastSentence' # <<>> ]_vars

\* The '\n' of a "\r\n" pair has been read after a sentence that made the
\* record loggable: nothing was emitted for it.
C13_Witness ==
    /\ lastByte = LF
    /\ line = <<LF>>
    /\ emitted = <<>>
    /\ bufferIndex = 0
    /\ Loggable(gpsData)
    /\ outcome = "fix"

\* C14: a fire that finds a loggable record and does not write it reports
\* the open error; such a fire leaves gps_log.txt and the record alone and
\* still sets lastLogTime to the millis() it read; and every write comes at
\* least LOG_INTERVAL_MS after the fire before it, failed or not, and
\* appends the line of the record as it is at that moment.
C14_SinkUnavailable ==
    [][ /\ (ticks' # ticks /\ fired' /\ Loggable(gpsData)
                /\ logFile' = logFile) =>
            /\ logAction' = "openerr"
            /\ diag' = "openerr"
        /\ (ticks' # ticks /\ logAction' = "openerr") =>
            /\ Loggable(gpsData)
            /\ logFile' = logFile
            /\ gpsData' = gpsData
            /\ lastLogTime' = Millis(now')
            /\ fireNow' = now'
        /\ logFile' # logFile =>
            /\ AtLeast(fireNow, now', LOG_INTERVAL_MS)
            /\ logFile' = Append(logFile, LogLine(gpsData')) ]_vars

\* gps_log.txt did not open for a loggable record: the fire is consumed
\* and nothing is in the file.
C14_Witness ==
    /\ fired
    /\ logAction = "openerr"
    /\ diag = "openerr"
    /\ Loggable(gpsData)
    /\ logFile = <<>>
    /\ lastLogTime = Millis(now)

\* C16: after decoding a sentence whose speed field, at comma position 7,
\* is empty, speed is 0.0, and mode, lat, ns, lon, ew and date are those of
\* the fields at comma positions 2, 3, 4, 5, 6 and 9 that are not empty,
\* with dataReady true exactly when field 9 has 6 characters or more.
C16_ByPosition ==
    LET fields == SplitAll(lastSentence)
        F(i) == IF Len(fields) > i THEN fields[i + 1] ELSE <<>>
    IN  (Len(fields) > 7 /\ F(7) = <<>>) =>
            /\ gpsData.speed = 0
            /\ F(2) # <<>> => gpsData.mode = First(F(2))
            /\ F(3) # <<>> => LatStr(gpsData) = Prefix(F(3), 10)
            /\ F(4) # <<>> => gpsData.ns = First(F(4))
            /\ F(5) # <<>> => gpsData.lon = Prefix(F(5), 10)
            /\ F(6) # <<>> => gpsData.ew = First(F(6))
            /\ gpsData.dataReady <=> Len(F(9)) >= 6
            /\ gpsData.dataReady => gpsData.date = Prefix(F(9), 6)

\* C19: a scheduler check, firing or not and whatever a fire does, leaves
\* the record and tempTime unchanged; and a fire that writes directly after
\* a fire that wrote, with no byte read in between, writes the same line.
C19_FireKeepsRecord ==
    [][ ticks' # ticks =>
          /\ gpsData' = gpsData
          /\ tempTime' = tempTime
          /\ (logAction = "write" /\ logAction' = "write") =>
                /\ Len(logFile') = Len(logFile) + 1
                /\ logFile'[Len(logFile')] = logFile[Len(logFile)] ]_vars

\* One sentence has been decoded and two fires have written its record.
C19_Witness ==
    /\ arrivals = 1
    /\ logAction = "write"
    /\ Len(logFile) = 2
    /\ logFile[1] = logFile[2]
    /\ Loggable(gpsData)

----------------------------------------------------------------------------
(* adjustTimeZone on every time of day *)

\* The six characters HHMMSS of h hours, m minutes, s seconds.
Clock(h, m, sec) ==
    <<Zero + (h \div 10), Zero + (h % 10), Zero + (m \div 10),
      Zero + (m % 10), Zero + (sec \div 10), Zero + (sec % 10)>>

\* The number two digit characters stand for.
TwoDigits(a, b) == (a - Zero) * 10 + (b - Zero)

UtcTimes == {Clock(h, m, sec) : h \in 0..23, m \in 0..59, sec \in 0..59}

\* parseRMC is about to call adjustTimeZone(tempTime, gpsData.time).
InitTZ ==
    /\ pc = "tz"
    /\ tempTime \in UtcTimes
    /\ rx = <<>>
    /\ arrivals = 0
    /\ buffer = <<>>
    /\ bufferIndex = 0
    /\ gpsData = ZeroGps
    /\ lastLogTime = U32(0)
    /\ now = <<0, 0, 0>>
    /\ ticks = 0
    /\ logFile = <<>>
    /\ diag = "none"
    /\ lastByte = NUL
    /\ emitted = <<>>
    /\ line = <<>>
    /\ lastSentence = <<>>
    /\ outcome = "none"
    /\ fired = FALSE
    /\ fireNow = <<0, 0, 0>>
    /\ prevFireNow = <<0, 0, 0>>
    /\ logAction = "none"

\* The call adjustTimeZone(tempTime, gpsData.time).
ConvertTime ==
    /\ pc = "tz"
    /\ pc' = "tzdone"
    /\ gpsData' = StoreTime(gpsData, adjustTimeZone(tempTime))
    /\ UNCHANGED <<rx, arrivals, buffer, bufferIndex, tempTime, lastLogTime,
                   now, ticks, logFile, diag, lastByte, emitted, line,
                   lastSentence, outcome, fired, fireNow, prevFireNow,
                   logAction>>

NextTZ == ConvertTime

SpecTZ == InitTZ /\ [][NextTZ]_vars

\* The minutes after midnight of the UTC time in tempTime, shifted by the
\* offset of 5 h 30 min and wrapped at 24 h.
LocalMinutes ==
    (TwoDigits(tempTime[1], tempTime[2]) * 60
        + TwoDigits(tempTime[3], tempTime[4]) + 330) % 1440

\* C3: for every UTC time HHMMSS of a day, adjustTimeZone writes six digit
\* characters: the hours and minutes of (HH*60 + MM + 330) mod 1440, each
\* zero padded to two digits, and the seconds SS unchanged.
C3_LocalTime ==
    pc = "tzdone" =>
        LET t == TimeStr(gpsData)
        IN  /\ Len(t) = 6
            /\ \A i \in 1..6 : t[i] \in Zero..(Zero + 9)
            /\ TwoDigits(t[1], t[2]) = LocalMinutes \div 60
            /\ TwoDigits(t[3], t[4]) = LocalMinutes % 60
            /\ <<t[5], t[6]>> = <<tempTime[5], tempTime[6]>>

\* A conversion in which the minutes carry into the hours and the hours wrap
\* past midnight: 18:45:07 UTC has become 00:15:07.
C3_Witness ==
    /\ pc = "tzdone"
    /\ tempTime = Str("184507")
    /\ TimeStr(gpsData) = Str("001507")

\* C4 as the specification states it: UTC 123519 converts to local 180019.
C4_Original ==
    (pc = "tzdone" /\ tempTime = Str("123519")) =>
        TimeStr(gpsData) = Str("180019")

\* C4, amended: UTC 123519 with offset (+5h, +30m) converts to local 180519
\* (minutes 35 + 30 = 65: carry 1, minutes 05; hours 12 + 5 + 1 = 18).
C4_Reference ==
    (pc = "tzdone" /\ tempTime = Str("123519")) =>
        TimeStr(gpsData) = Str("180519")

\* The reference time has been converted.
C4_Witness ==
    /\ pc = "tzdone"
    /\ tempTime = Str("123519")
    /\ gpsData.time = Str("180519") \o <<NUL>>

----------------------------------------------------------------------------
(* The assembler on arbitrary bytes *)

\* Single bytes the UART delivers in one behaviour.
MaxAsmBytes == 5

AsmBytes == {<<Dollar>>, <<CR>>, <<LF>>, <<Comma>>, <<NUL>>, Str("a")}

LongHead == Str("GPRMC,123519,A,4807.038,N,01131.000,E,022.4,084.4,230394,")

\* The first 125 bytes of a sentence that is longer than the buffer.
LongBody ==
    LongHead \o [i \in 1..(BUFFER_SIZE - 3 - Len(LongHead)) |-> Ord("x")]

\* loop() is entered after a successful setup(), with nothing read yet, or
\* it has read a '$' and the 125 bytes of LongBody.
InitAsm ==
    /\ pc = "loop"
    /\ \/ buffer = <<>> /\ line = <<>> /\ lastByte = NUL
       \/ /\ buffer = LongBody
          /\ line = <<Dollar>> \o LongBody
          /\ lastByte = LongBody[Len(LongBody)]
    /\ bufferIndex = Len(buffer)
    /\ rx = <<>>
    /\ arrivals = 0
    /\ gpsData = ZeroGps
    /\ tempTime = Zeros(6)
    /\ lastLogTime = U32(0)
    /\ now = Later(<<0, 0, 0>>, U32(SETUP_DELAY_MS))
    /\ ticks = 0
    /\ logFile = <<>>
    /\ diag = "none"
    /\ emitted = <<>>
    /\ lastSentence = <<>>
    /\ outcome = "none"
    /\ fired = FALSE
    /\ fireNow = <<0, 0, 0>>
    /\ prevFireNow = <<0, 0, 0>>
    /\ logAction = "none"

NextAsm ==
    \/ SerialArrive(AsmBytes, MaxAsmBytes)
    \/ ReadByte

SpecAsm == InitAsm /\ [][NextAsm]_vars

\* The bytes of line before its last one.
LineBody == SubSeq(line, 1, Len(line) - 1)

\* The bytes of s after its last '$' (all of s when it has none).
LastRun(s) ==
    IF \E i \in 1..Len(s) : s[i] = Dollar
    THEN SubSeq(s, 1 + (CHOOSE i \in 1..Len(s) :
                           s[i] = Dollar
                           /\ \A j \in (i + 1)..Len(s) : s[j] # Dollar),
                Len(s))
    ELSE s

\* C1 as the specification states it: a sentence is emitted if and only if
\* a '$' was followed by at least one non-terminator byte and then by '\n'
\* or '\r', and its content is the bytes between them, cut to 127.
C1_Original ==
    /\ (emitted # <<>>) <=>
          /\ lastByte \in {LF, CR}
          /\ \E i \in 1..Len(LineBody) : LineBody[i] = Dollar
          /\ LastRun(LineBody) # <<>>
    /\ emitted # <<>> => emitted = Prefix(LastRun(LineBody), BUFFER_SIZE - 1)

\* C1, amended: a sentence is emitted if and only if a '\n' or '\r' arrives
\* after at least one byte that is neither '$' nor a terminator has arrived
\* since the last '$' or terminator, or since the start of the input when
\* there was none; its content is exactly those bytes, cut to the first 127.
C1_Assembler ==
    /\ (emitted # <<>>) <=>
          (lastByte \in {LF, CR} /\ LastRun(LineBody) # <<>>)
    /\ emitted # <<>> => emitted = Prefix(LastRun(LineBody), BUFFER_SIZE - 1)

\* A sentence cut to the capacity has been emitted: 129 bytes followed the
\* '$' and the first 127 of them were handed on.
C1_Witness ==
    /\ Len(emitted) = BUFFER_SIZE - 1
    /\ Len(LastRun(LineBody)) = BUFFER_SIZE + 1
    /\ line[1] = Dollar

\* C12: bufferIndex stays within 0..127 and counts the bytes of buffer;
\* buffer holds the first 127 of the bytes received since the last '$' or
\* terminator, so a byte that arrives when 127 are buffered is dropped; and
\* the sentence emitted for 127 bytes or more is exactly the first 127.
C12_Capacity ==
    /\ bufferIndex \in 0..(BUFFER_SIZE - 1)
    /\ Len(buffer) = bufferIndex
    /\ IF line = <<>> \/ lastByte \in {LF, CR}
       THEN /\ buffer = <<>>
            /\ (line # <<>> /\ Len(LastRun(LineBody)) >= BUFFER_SIZE - 1)
                  => emitted = SubSeq(LastRun(LineBody), 1, BUFFER_SIZE - 1)
       ELSE buffer = Prefix(LastRun(line), BUFFER_SIZE - 1)

\* 127 bytes are buffered and two more bytes have been received and
\* dropped since the '$'.
C12_Witness ==
    /\ bufferIndex = BUFFER_SIZE - 1
    /\ lastByte \notin {LF, CR, Dollar}
    /\ Len(LastRun(line)) = BUFFER_SIZE + 1
    /\ buffer = SubSeq(LastRun(line), 1, BUFFER_SIZE - 1)

----------------------------------------------------------------------------
(* The scheduler across a wrap of millis() *)

\* Bursts and scheduler checks in one behaviour of SpecSched.
MaxSchedChunks == 1
MaxSchedTicks == 4

SchedChunks == {RefSentence, VoidSentence}

\* Milliseconds between one scheduler check and the next: a quarter, a half
\* and a whole interval, and 2500 ms short of a full turn of millis().
SchedSteps == {U32(1250), U32(2500), U32(5000), Sub32(U32(0), U32(2500))}

NextSched ==
    \/ Setup
    \/ SerialArrive(SchedChunks, MaxSchedChunks)
    \/ ReadByte
    \/ LogTick(SchedSteps, MaxSchedTicks)

SpecSched == Init /\ [][NextSched]_vars

\* C7: a scheduler check fires only when at least LOG_INTERVAL_MS have
\* passed since the fire before it (since time 0 for the first fire), also
\* when millis() has wrapped in between, and a fire sets lastLogTime to the
\* millis() it read; a check that does not fire leaves lastLogTime alone.
C7_Interval ==
    /\ fired => /\ AtLeast(prevFireNow, fireNow, LOG_INTERVAL_MS)
                /\ fireNow = now
                /\ lastLogTime = Millis(now)
    /\ lastLogTime = Millis(fireNow)

\* A fire after millis() wrapped: the fire before it read a larger millis().
C7_Witness ==
    /\ fired
    /\ fireNow[1] = 1
    /\ prevFireNow[1] = 0
    /\ prevFireNow # <<0, 0, 0>>
    /\ ~Geq32(Millis(fireNow), Millis(prevFireNow))
    /\ Sub32(Millis(fireNow), Millis(prevFireNow)) = U32(LOG_INTERVAL_MS)

----------------------------------------------------------------------------
(* setup() failing, with bytes arriving all the same *)

MaxHaltChunks == 1
MaxHaltTicks == 2

\* A sentence longer than the buffer.
LongSentence == <<Dollar>> \o LongBody \o Str("xxxxxx\r\n")

HaltChunks == {RefSentence, ShortTimeSentence, GgaSentence, LongSentence}

\* The UART receives a burst of bytes while setup() spins in while(1).
SerialArriveHalted(chunks, max) ==
    /\ pc = "halted"
    /\ rx = <<>>
    /\ arrivals < max
    /\ \E c \in chunks : rx' = c
    /\ arrivals' = arrivals + 1
    /\ UNCHANGED <<pc, buffer, bufferIndex, gpsData, tempTime, lastLogTime,
                   now, ticks, logFile, diag, lastByte, emitted, line,
                   lastSentence, outcome, fired, fireNow, prevFireNow,
                   logAction>>

NextHalt ==
    \/ Setup
    \/ SerialArrive(HaltChunks, MaxHaltChunks)
    \/ SerialArriveHalted(HaltChunks, MaxHaltChunks)
    \/ ReadByte
    \/ LogTick(Steps, MaxHaltTicks)

SpecHalt == Init /\ [][NextHalt]_vars

\* C15: setup() ends in the halt exactly when SD.begin failed; once halted
\* the program stays halted, reads no byte that is waiting, and leaves the
\* record, the sentence buffer, lastLogTime and gps_log.txt as they are;
\* and once in loop() the program stays in loop(), whatever failed before
\* (the test file, the log file, a sentence).
C15_FatalOnlySD ==
    [][ /\ pc = "setup" => ((pc' = "halted") <=> (diag' = "sdfail"))
        /\ pc = "halted" =>
            /\ pc' = "halted"
            /\ rx # <<>> => rx' = rx
            /\ gpsData' = gpsData
            /\ buffer' = buffer
            /\ bufferIndex' = bufferIndex
            /\ lastLogTime' = lastLogTime
            /\ logFile' = logFile
            /\ ticks' = ticks
        /\ pc = "loop" =>
            pc' = "loop" ]_vars

\* SD.begin failed and a sentence has arrived: it waits unread.
C15_Witness ==
    /\ pc = "halted"
    /\ diag = "sdfail"
    /\ rx = RefSentence
    /\ gpsData = ZeroGps
    /\ logFile = <<>>

----------------------------------------------------------------------------
(* The filter for RMC sentences *)

MaxFilterChunks == 2

\* A sentence with the marker GNRMC in its third field.
MidMarkerSentence == Str("$GPTXT,01,GNRMC,V,x\r\n")

\* A sentence with a NUL byte before the marker: the string in buffer ends
\* at the NUL.
NulMarkerSentence == Str("$ab") \o <<NUL>> \o Str("GPRMC,1\r\n")

FilterChunks ==
    {RefSentence, VoidSentence, GgaSentence, MidMarkerSentence,
     NulMarkerSentence}

NextFilter ==
    \/ Setup
    \/ SerialArrive(FilterChunks, MaxFilterChunks)
    \/ ReadByte

SpecFilter == Init /\ [][NextFilter]_vars

\* The string s holds GNRMC or GPRMC at some position.
HasMarker(s) ==
    \E i \in 1..(Len(s) - 4) : SubSeq(s, i, i + 4) \in {GNRMC, GPRMC}

\* C17: when a terminator completes a sentence that holds neither GNRMC
\* nor GPRMC, the record (every field, dataReady and mode among them) and
\* tempTime are unchanged, so a loggable record stays loggable; when the
\* sentence holds a marker at any position, parseRMC runs on it: dataReady
\* is set anew from its tenth token; and no other byte changes the record.
C17_Filter ==
    [][ rx # <<>> =>
          IF Head(rx) \in {LF, CR} /\ bufferIndex > 0
          THEN IF HasMarker(CStr(buffer))
               THEN /\ lastSentence' = CStr(buffer)
                    /\ diag' \in {"fix", "lost", "silent"}
                    /\ gpsData'.dataReady <=>
                          Len(Token(strtokAll(CStr(buffer)), 9)) >= 6
               ELSE /\ gpsData' = gpsData
                    /\ tempTime' = tempTime
                    /\ lastSentence' = lastSentence
                    /\ Loggable(gpsData) => Loggable(gpsData')
          ELSE gpsData' = gpsData ]_vars

\* A sentence with the marker in its third field has been decoded after
\* the reference sentence: the record is no longer loggable.
C17_Witness ==
    /\ lastSentence \o <<CR, LF>> = Tail(MidMarkerSentence)
    /\ gpsData.date = Str("230394")
    /\ ~gpsData.dataReady
    /\ gpsData.mode = Ord("G")

----------------------------------------------------------------------------
(* The serial while of loop() with bytes arriving during the drain *)

MaxDrainChunks == 1
MaxDrainTicks == 2

\* Bytes the receive buffer of Serial1 holds at most in this model.
MaxPending == 2

\* Bytes of one line at most, among the bytes that arrive during a drain.
MaxDrainLine == 3

DrainChunks == {Str("$ab\r\n"), Str("\n")}

DrainBytes == {LF, Ord("a")}

\* The UART receives one more byte while loop() is inside its while: the
\* byte is available at the next test of Serial1.available() > 0.
SerialFlow(bytes, pending) ==
    /\ pc = "loop"
    /\ rx # <<>>
    /\ Len(rx) < pending
    /\ \E c \in bytes :
          /\ c = LF \/ Len(line) + Len(rx) < MaxDrainLine
          /\ rx' = Append(rx, c)
    /\ UNCHANGED <<pc, arrivals, buffer, bufferIndex, gpsData, tempTime,
                   lastLogTime, now, ticks, logFile, diag, lastByte, emitted,
                   line, lastSentence, outcome, fired, fireNow, prevFireNow,
                   logAction>>

NextDrain ==
    \/ Setup
    \/ SerialArrive(DrainChunks, MaxDrainChunks)
    \/ SerialFlow(DrainBytes, MaxPending)
    \/ ReadByte
    \/ LogTick(Steps, MaxDrainTicks)

\* loop() always takes its next step: it reads the byte that is available,
\* and makes its scheduler check when none is.
SpecDrain ==
    /\ Init
    /\ [][NextDrain]_vars
    /\ WF_vars(Setup)
    /\ WF_vars(ReadByte)
    /\ WF_vars(LogTick(Steps, MaxDrainTicks))

\* C18: every drain ends: whenever a byte is available in loop(), a later
\* test of Serial1.available() > 0 finds none, and loop() goes on to its
\* scheduler check.
C18_DrainEnds == (pc = "loop" /\ rx # <<>>) ~> (pc = "loop" /\ rx = <<>>)

----------------------------------------------------------------------------
(* Sentences whose local time is on the next day *)

MaxDateChunks == 2
MaxDateTicks == 2

\* UTC 18:30:00 and 23:59:59 on 31 December 1999: local time is 00:00:00
\* and 05:29:59 on the next day.
MidnightSentence == Str("$GPRMC,183000,A,1.5,N,2.5,E,1.0,9.9,311299\r\n")
LateSentence == Str("$GPRMC,235959,A,3.5,S,4.5,W,2.0,9.9,311299\r\n")

DateChunks == {RefSentence, MidnightSentence, LateSentence}

NextDate ==
    \/ Setup
    \/ SerialArrive(DateChunks, MaxDateChunks)
    \/ ReadByte
    \/ LogTick(Steps, MaxDateTicks)

SpecDate == Init /\ [][NextDate]_vars

\* The number written by the two digits of s at positions i and i + 1.
Num2(s, i) == (s[i] - Zero) * 10 + (s[i + 1] - Zero)

\* C20: after a sentence with fields 0..9 present and a time of day hhmmss
\* has made the record loggable, date is the first six characters of the
\* sentence's date field, also when UTC time plus 5 h 30 min is past
\* midnight: then localTime is that time less 24 hours; lat, lon and
\* the hemispheres are those of the sentence; and a line written from the
\* record starts with that date and that localTime.
C20_DateKept ==
    LET fields == SplitAll(lastSentence)
        F(i) == IF Len(fields) > i THEN fields[i + 1] ELSE <<>>
        utc == Num2(F(1), 1) * 60 + Num2(F(1), 3)
        t == TimeStr(gpsData)
    IN  ( /\ Loggable(gpsData)
          /\ \A i \in 0..9 : F(i) # <<>>
          /\ Len(F(1)) >= 6
          /\ AllDigits(Prefix(F(1), 6))
          /\ Num2(F(1), 1) < 24 /\ Num2(F(1), 3) < 60
          /\ Num2(F(1), 5) < 60 )
        => /\ gpsData.date = Prefix(F(9), 6)
           /\ Len(t) = 6
           /\ Num2(t, 1) * 60 + Num2(t, 3)
                 = IF utc >= 1110 THEN utc + 330 - 1440 ELSE utc + 330
           /\ Num2(t, 5) = Num2(F(1), 5)
           /\ LatStr(gpsData) = Prefix(F(3), 10)
           /\ gpsData.lon = Prefix(F(5), 10)
           /\ gpsData.ns = First(F(4))
           /\ gpsData.ew = First(F(6))
           /\ logAction = "write" =>
                 Prefix(logFile[Len(logFile)], 14)
                    = Prefix(F(9), 6) \o <<Comma>> \o t \o <<Comma>>

\* The record of UTC 18:30:00 on 311299 has been written with the date
\* 311299 and the local time 00:00:00.
C20_Witness ==
    /\ lastSentence \o <<CR, LF>> = Tail(MidnightSentence)
    /\ logAction = "write"
    /\ logFile[Len(logFile)] = Str("311299,000000,2.5E,1.5N,1.9")

============================================================================
